---- MODULE Spec2Model ----
(***************************************************************************)
(* chronos: run a program, wait for it, and report the wallclock time of   *)
(* the process and the user/kernel times of its job object.                *)
(*                                                                         *)
(* The model follows src/chronos.cpp: ParseArgv (one loop iteration per    *)
(* step) and wmain (one WinAPI call per step).  Strings are sequences of   *)
(* one-character strings, so that find(), substr() and += are computed.    *)
(***************************************************************************)
EXTENDS Integers, Sequences, FiniteSets, TLC

\* ------------------------------------------------------------------ bounds
\* longest argument vector (without argv[0]) given to ParseArgv alone
MaxArgc == 3
\* longest argument vector (without argv[0]) given to the whole tool
MaxToolArgc == 2
\* most descendants of the primary process alive at once
MaxChildren == 2

\* ------------------------------------------------------- wide strings
\* wstring::find(p) == 0
StartsWith(s, p) == Len(s) >= Len(p) /\ SubSeq(s, 1, Len(p)) = p

\* wstring::substr(n)
Substr(s, n) == SubSeq(s, n + 1, Len(s))

Empty == << >>
DashDash == <<"-", "-">>
DashO == <<"-", "o">>
DashDashOutput == <<"-", "-", "o", "u", "t", "p", "u", "t">>
DashV == <<"-", "v">>
DashDashVerbose == <<"-", "-", "v", "e", "r", "b", "o", "s", "e">>
DashH == <<"-", "h">>
DashDashHelp == <<"-", "-", "h", "e", "l", "p">>
Dash == <<"-">>
Space == <<" ">>

\* the words an argument vector is drawn from
FileWord == <<"f">>
ProgWord == <<"p">>
UnknownFlag == <<"-", "x">>
Words ==
    { DashDash, DashO, DashO \o FileWord, DashO \o DashDash,
      DashDashOutput, DashDashOutput \o FileWord, DashDashOutput \o DashDash,
      DashV, DashDashVerbose, DashH, DashDashHelp,
      UnknownFlag, Dash, Empty, FileWord, ProgWord }

\* the words the whole tool is run with
ToolWords == { DashV, DashO \o FileWord, ProgWord, UnknownFlag }

SeqsUpTo(S, n) == UNION { [1..k -> S] : k \in 0..n }

\* ------------------------------------------------------------ ParseArgv
\* CliParams params = { 0 }
ZeroParams == [verbose |-> FALSE, outputFileName |-> Empty, cmdLine |-> Empty]

\* a line written to the error stream
Msg(kind, arg) == [kind |-> kind, arg |-> arg]

\* ParseArgv's locals on entry to the while loop; arguments[] is 0-based in
\* the code and 1-based here, argNo keeps the code's value.  `at` is where
\* the function is (in the loop, after it, returned true or false) and `line`
\* the source line of the return statement taken.
ParseEntry(args, result) ==
    [arguments |-> args, argc |-> Len(args), argNo |-> 0,
     consumeNextPositionalArgument |-> FALSE, posArg |-> Empty,
     result |-> result, wcerr |-> << >>, at |-> "loop", line |-> 0]

\* as IsDashO, had the word been compared whole
IsDashOBare(curWord) == curWord = DashO

\* curWord.find(L"-o") == 0
IsDashO(curWord) == StartsWith(curWord, DashO)

\* as IsDashDashOutput, had the long spelling to be the whole word
IsDashDashOutputExact(curWord) == curWord = DashDashOutput

\* curWord.find(L"--output") == 0
IsDashDashOutput(curWord) == StartsWith(curWord, DashDashOutput)

\* as IsUnknownOption, without the unknown-option branch
NoUnknownOption(curWord) == FALSE

\* the unknown-option branch: any other word that begins with a dash
IsUnknownOption(curWord) == StartsWith(curWord, Dash)

\* as OutputOption, had an attached value been stored in the result at once
OutputOptionStored(st, rest) ==
    IF rest = Empty
    THEN [st EXCEPT !.consumeNextPositionalArgument = TRUE]
    ELSE [st EXCEPT !.posArg = rest, !.result.outputFileName = rest]

\* if (curWord.empty()) consumeNextPositionalArgument = true;
\* else posArg = curWord;      (curWord is what follows the flag)
OutputOption(st, rest) ==
    IF rest = Empty
    THEN [st EXCEPT !.consumeNextPositionalArgument = TRUE]
    ELSE [st EXCEPT !.posArg = rest]

\* the option branches of the loop body; curWord aliases arguments[argNo],
\* so the substr() assignments overwrite the vector's element
OptionBranch(st, curWord) ==
    LET i == st.argNo + 1
        stripO == Substr(curWord, 2)
        stripOutput == Substr(curWord, 8)
    IN  IF IsDashO(curWord)
        THEN OutputOption([st EXCEPT !.arguments[i] = stripO, !.argNo = @ + 1],
                          stripO)
        ELSE IF IsDashDashOutput(curWord)
        THEN OutputOption([st EXCEPT !.arguments[i] = stripOutput, !.argNo = @ + 1],
                          stripOutput)
        ELSE IF curWord = DashV \/ curWord = DashDashVerbose
        THEN [st EXCEPT !.result.verbose = TRUE, !.argNo = @ + 1]
        ELSE IF curWord = DashH \/ curWord = DashDashHelp
        THEN [st EXCEPT !.at = "false", !.line = 132]
        ELSE IF IsUnknownOption(curWord)
        THEN [st EXCEPT !.wcerr = Append(@, Msg("Unknown option", curWord)),
                        !.at = "false", !.line = 135]
        ELSE [st EXCEPT !.at = "post"]

\* as AfterSeparator, without the argNo++ before the break
AtSeparator(argNo) == argNo

\* argNo++;  /* skip the "--" itself */
AfterSeparator(argNo) == argNo + 1

\* one evaluation of the while condition and, if it holds, of the loop body
ParseIter(st) ==
    IF ~(st.argNo < st.argc)
    THEN [st EXCEPT !.at = "post"]
    ELSE LET curWord == st.arguments[st.argNo + 1]
         IN  IF st.consumeNextPositionalArgument
             THEN [st EXCEPT !.posArg = curWord,
                             !.consumeNextPositionalArgument = FALSE,
                             !.argNo = @ + 1]
             ELSE IF curWord = DashDash
             THEN [st EXCEPT !.argNo = AfterSeparator(@), !.at = "post"]
             ELSE OptionBranch(st, curWord)

\* result.cmdLine = arguments[argNo], then += L" " + arguments[i]
RECURSIVE ConcatFrom(_, _, _)
ConcatFrom(arguments, i, argc) ==
    IF i >= argc THEN Empty
    ELSE Space \o arguments[i + 1] \o ConcatFrom(arguments, i + 1, argc)

\* as CmdLineFrom, without the loop that appends the rest
CmdLineFirstOnly(arguments, argNo, argc) == arguments[argNo + 1]

CmdLineFrom(arguments, argNo, argc) ==
    arguments[argNo + 1] \o ConcatFrom(arguments, argNo + 1, argc)

\* as IsSeparator, had the check of posArg been left out
NeverSeparator(posArg) == FALSE

\* !posArg.compare(L"--")
IsSeparator(posArg) == posArg = DashDash

\* the code after the loop
ParsePost(st) ==
    IF IsSeparator(st.posArg)
    THEN [st EXCEPT !.wcerr = Append(@, Msg("Missing positional argument", Empty)),
                    !.at = "false", !.line = 145]
    ELSE LET st1 == IF Len(st.posArg) # 0
                    THEN [st EXCEPT !.result.outputFileName = st.posArg]
                    ELSE st
         IN  IF st1.argNo = st1.argc
             THEN [st1 EXCEPT !.wcerr = Append(@, Msg("Missing program name", Empty)),
                              !.at = "false", !.line = 154]
             ELSE [st1 EXCEPT !.result.cmdLine =
                                  CmdLineFrom(st1.arguments, st1.argNo, st1.argc),
                              !.at = "true", !.line = 162]

\* ParseArgv from a given point to its return
RECURSIVE ParseRun(_)
ParseRun(st) ==
    IF st.at = "loop" THEN ParseRun(ParseIter(st))
    ELSE IF st.at = "post" THEN ParsePost(st)
    ELSE st

\* -------------------------------------------------------------- state
VARIABLES
    argv,       \* the words after argv[0]
    ndebug,     \* TRUE in a build with NDEBUG, where assert() is compiled out
    pc,         \* the call wmain is at
    ps,         \* ParseArgv's locals
    params,     \* wmain's CliParams, ParseArgv's `result`
    errStream,  \* lines written to the error stream
    outStream,  \* lines written to standard output
    file,       \* the file named by -o: does it exist, and its lines
    ofState,    \* the wofstream `of`
    hProcess, hThread, hJob,   \* the three handles
    proc,       \* the primary process
    procExit,   \* the status the primary process exited with
    inJob,      \* is the primary process a member of the job object
    children,   \* descendants of the primary process that are alive
    exitCode, procTimes, jobInfo,   \* wmain's locals
    failed,     \* the calls that returned failure
    toolExit    \* the tool's own exit status

parseVars == <<ps, params>>
ioVars == <<errStream, outStream, file, ofState>>
handleVars == <<hProcess, hThread, hJob>>
envVars == <<proc, procExit, inJob, children>>
localVars == <<exitCode, procTimes, jobInfo>>
vars == <<argv, ndebug, pc, parseVars, ioVars, handleVars, envVars, localVars,
          failed, toolExit>>

\* ----------------------------------------------------- platform values
None == "none"
\* no exit status yet: the process has not ended (a status is a DWORD and is
\* never negative)
NoStatus == 0 - 1
ExitCodes == {0, 42, 127}
ErrCodes == {"ERROR_ACCESS_DENIED"}

\* GetLastErrorDescription: the text of the last error, empty for error 0
GetLastErrorDescription(errcode) ==
    IF errcode = "0" THEN Empty ELSE <<"FormatMessage", errcode>>

\* DWORD to int, as `return exitCode` converts, and int to the 32-bit status
\* the system records for the tool.  (2^32 is written as 2 * 2147483647 + 2.)
ToInt(dword) ==
    IF dword > 2147483647 THEN ((dword - 2147483647) - 2147483647) - 2 ELSE dword
ExitStatus(int) ==
    IF int < 0 THEN ((int + 2147483647) + 2147483647) + 2 ELSE int

\* creation and exit time of the primary process, in 100 ns units
GoodTimes == { [create |-> 0, exit |-> 30000000], [create |-> 10, exit |-> 10] }
\* what an unwritten FILETIME pair may hold
AnyTimes == GoodTimes \cup { [create |-> 10, exit |-> 0] }
NoTimes == [create |-> 0, exit |-> 0]

\* job accounting: kernel and user time in 100 ns units, page faults
Accountings ==
    { [TotalUserTime |-> 10000000, TotalKernelTime |-> 5000000,
       TotalPageFaultCount |-> 7],
      [TotalUserTime |-> 0, TotalKernelTime |-> 0, TotalPageFaultCount |-> 0] }
JobInfo(acc, active) ==
    [TotalUserTime |-> acc.TotalUserTime, TotalKernelTime |-> acc.TotalKernelTime,
     TotalPageFaultCount |-> acc.TotalPageFaultCount, ActiveProcesses |-> active]
NoJobInfo == JobInfo([TotalUserTime |-> 0, TotalKernelTime |-> 0,
                      TotalPageFaultCount |-> 0], 0)

NoFile == [exists |-> FALSE, lines |-> << >>]
OldFile == [exists |-> TRUE, lines |-> << <<"old">> >>]

\* ------------------------------------------------------------ start
InitWith(argvs) ==
    /\ argv \in argvs
    /\ ndebug \in BOOLEAN
    /\ pc = "ParseArgv"
    /\ params = ZeroParams
    /\ ps = ParseEntry(argv, ZeroParams)
    /\ errStream = << >>
    /\ outStream = << >>
    /\ file \in {NoFile, OldFile}
    /\ ofState = "unopened"
    /\ hProcess = None /\ hThread = None /\ hJob = None
    /\ proc = None
    /\ procExit = NoStatus
    /\ inJob = FALSE
    /\ children = 0
    /\ exitCode = 0
    /\ procTimes = NoTimes
    /\ jobInfo = NoJobInfo
    /\ failed = {}
    /\ toolExit = NoStatus

Init == InitWith(SeqsUpTo(ToolWords, MaxToolArgc))

\* exit(status), or return status from wmain
Exit(status) == pc' = "exited" /\ toolExit' = ExitStatus(status)

\* ------------------------------------------------- wmain: parsing
\* one iteration of ParseArgv's while loop
ParseLoop ==
    /\ pc = "ParseArgv" /\ ps.at = "loop"
    /\ ps' = ParseIter(ps)
    /\ params' = ps'.result
    /\ errStream' = ps'.wcerr
    /\ UNCHANGED <<argv, ndebug, pc, outStream, file, ofState, handleVars, envVars,
                   localVars, failed, toolExit>>

\* ParseArgv after its loop
ParseAfterLoop ==
    /\ pc = "ParseArgv" /\ ps.at = "post"
    /\ ps' = ParsePost(ps)
    /\ params' = ps'.result
    /\ errStream' = ps'.wcerr
    /\ UNCHANGED <<argv, ndebug, pc, outStream, file, ofState, handleVars, envVars,
                   localVars, failed, toolExit>>

\* as UsageAndExit, without the exit(1): wmain goes on after the usage text
UsageAndReturn ==
    /\ errStream' = Append(errStream, Msg("Usage", Empty))
    /\ pc' = "CreateProcess"
    /\ toolExit' = toolExit

\* UsageAndExit: the usage text on the error stream, then exit(1)
UsageAndExit ==
    /\ errStream' = Append(errStream, Msg("Usage", Empty))
    /\ Exit(1)

\* if (!ParseArgv(argc, argv, params)) UsageAndExit(argv);
ParseReturn ==
    /\ pc = "ParseArgv" /\ ps.at \in {"true", "false"}
    /\ IF ps.at = "false"
       THEN UsageAndExit
       ELSE pc' = "CreateProcess" /\ UNCHANGED <<errStream, toolExit>>
    /\ UNCHANGED <<argv, ndebug, parseVars, outStream, file, ofState, handleVars,
                   envVars, localVars, failed>>

\* ---------------------------------------------- wmain: the supervisor
\* as FatalReturn, had the failure branch ended with `return 1;`
FatalReturnOne(stream, what, errcode) ==
    [stream |-> Append(stream, Msg(what, GetLastErrorDescription(errcode))),
     status |-> 1]

\* what a failed call followed by `return 127` leaves: the message with the
\* platform's error text, and the status
FatalReturn(stream, what, errcode) ==
    [stream |-> Append(stream, Msg(what, GetLastErrorDescription(errcode))),
     status |-> 127]

\* assert(cond): aborts in a build without NDEBUG, nothing otherwise
AssertAborts(nd, cond) == ~nd /\ ~cond

\* abort() after a failed assert: the CRT's message, status 3
Abort(expr) ==
    /\ errStream' = Append(errStream, Msg("Assertion failed", <<expr>>))
    /\ Exit(3)

\* CreateProcess(..., CREATE_SUSPENDED | NORMAL_PRIORITY_CLASS, ...)
CreateProcess ==
    /\ pc = "CreateProcess"
    /\ \/ /\ proc' = "suspended"
          /\ hProcess' = "open" /\ hThread' = "open"
          /\ pc' = "CreateJobObject"
          /\ UNCHANGED <<errStream, toolExit, failed>>
       \/ \E e \in ErrCodes :
            LET r == FatalReturn(errStream, "Unable to start the process: ", e)
            IN  /\ failed' = failed \cup {"CreateProcess"}
                /\ errStream' = r.stream
                /\ Exit(r.status)
                /\ UNCHANGED <<proc, hProcess, hThread>>
    /\ UNCHANGED <<argv, ndebug, parseVars, outStream, file, ofState, hJob,
                   procExit, inJob, children, localVars>>

\* hJob = CreateJobObject(NULL, NULL); assert(hJob != NULL);
CreateJobObject ==
    /\ pc = "CreateJobObject"
    /\ \E ok \in BOOLEAN :
         /\ hJob' = IF ok THEN "open" ELSE "null"
         /\ failed' = IF ok THEN failed ELSE failed \cup {"CreateJobObject"}
         /\ IF AssertAborts(ndebug, ok)
            THEN Abort("hJob != NULL")
            ELSE pc' = "AssignProcessToJobObject" /\ UNCHANGED <<errStream, toolExit>>
    /\ UNCHANGED <<argv, ndebug, parseVars, outStream, file, ofState, hProcess,
                   hThread, envVars, localVars>>

\* ret = AssignProcessToJobObject(hJob, hProcess); assert(ret);
AssignProcessToJobObject ==
    /\ pc = "AssignProcessToJobObject"
    /\ \E ok \in IF hJob = "open" THEN BOOLEAN ELSE {FALSE} :
         /\ inJob' = ok
         /\ failed' = IF ok THEN failed ELSE failed \cup {"AssignProcessToJobObject"}
         /\ IF AssertAborts(ndebug, ok)
            THEN Abort("ret")
            ELSE pc' = "ResumeThread" /\ UNCHANGED <<errStream, toolExit>>
    /\ UNCHANGED <<argv, ndebug, parseVars, outStream, file, ofState, handleVars,
                   proc, procExit, children, localVars>>

\* ResumeThread(procInfo.hThread); its result is not looked at
ResumeThread ==
    /\ pc = "ResumeThread"
    /\ \E ok \in BOOLEAN :
         /\ proc' = IF ok THEN "running" ELSE proc
         /\ failed' = IF ok THEN failed ELSE failed \cup {"ResumeThread"}
    /\ pc' = "WaitForSingleObject"
    /\ UNCHANGED <<argv, ndebug, parseVars, ioVars, handleVars, procExit, inJob,
                   children, localVars, toolExit>>

\* as WaitSatisfied, had the wait returned without waiting
WaitNotWaiting(p, c) == TRUE

\* as WaitSatisfied, had the wait been for every process of the job
WaitForAll(p, c) == p = "exited" /\ c = 0

\* WaitForSingleObject(hProcess, INFINITE) returns WAIT_OBJECT_0 once the
\* process object is signalled
WaitSatisfied(p, c) == p = "exited"

\* if (WaitForSingleObject(hProcess, INFINITE) != WAIT_OBJECT_0) ... return 127
WaitForSingleObject ==
    /\ pc = "WaitForSingleObject"
    /\ \/ /\ WaitSatisfied(proc, children)
          /\ pc' = "GetExitCodeProcess"
          /\ UNCHANGED <<errStream, toolExit, failed>>
       \/ \E e \in ErrCodes :
            LET r == FatalReturn(errStream,
                                 "Failed waiting for process termination: ", e)
            IN  /\ failed' = failed \cup {"WaitForSingleObject"}
                /\ errStream' = r.stream
                /\ Exit(r.status)
    /\ UNCHANGED <<argv, ndebug, parseVars, outStream, file, ofState, handleVars,
                   envVars, localVars>>

\* DWORD exitCode = 0; ret = GetExitCodeProcess(hProcess, &exitCode); assert(ret);
GetExitCodeProcess ==
    /\ pc = "GetExitCodeProcess"
    /\ \E ok \in BOOLEAN :
         /\ exitCode' = IF ok THEN procExit ELSE 0
         /\ failed' = IF ok THEN failed ELSE failed \cup {"GetExitCodeProcess"}
         /\ IF AssertAborts(ndebug, ok)
            THEN Abort("ret")
            ELSE pc' = "GetProcessTimes" /\ UNCHANGED <<errStream, toolExit>>
    /\ UNCHANGED <<argv, ndebug, parseVars, outStream, file, ofState, handleVars,
                   envVars, procTimes, jobInfo>>

\* ret = GetProcessTimes(hProcess, &createTime, &exitTime, ...); assert(ret);
\* on failure createTime and exitTime are left unwritten
GetProcessTimes ==
    /\ pc = "GetProcessTimes"
    /\ \E ok \in BOOLEAN :
         /\ procTimes' \in IF ok THEN GoodTimes ELSE AnyTimes
         /\ failed' = IF ok THEN failed ELSE failed \cup {"GetProcessTimes"}
         /\ IF AssertAborts(ndebug, ok)
            THEN Abort("ret")
            ELSE pc' = "QueryInformationJobObject" /\ UNCHANGED <<errStream, toolExit>>
    /\ UNCHANGED <<argv, ndebug, parseVars, outStream, file, ofState, handleVars,
                   envVars, exitCode, jobInfo>>

\* the processes of the job that are alive: the primary process has exited,
\* its descendants belong to the job if it did
ActiveInJob == IF inJob THEN children ELSE 0

\* ret = QueryInformationJobObject(hJob, ..., &jobInfo, ...); assert(ret);
\* on failure jobInfo is left unwritten; with a NULL hJob the call asks about
\* the job of the calling process, if there is one
QueryInformationJobObject ==
    /\ pc = "QueryInformationJobObject"
    /\ \E ok \in BOOLEAN, acc \in Accountings, n \in 0..MaxChildren :
         /\ ok /\ hJob = "open" => n = ActiveInJob
         /\ jobInfo' = JobInfo(acc, n)
         /\ failed' = IF ok THEN failed ELSE failed \cup {"QueryInformationJobObject"}
         /\ IF AssertAborts(ndebug, ok)
            THEN Abort("ret")
            ELSE pc' = "CloseHandle"
                 /\ UNCHANGED <<errStream, toolExit>>
    /\ UNCHANGED <<argv, ndebug, parseVars, outStream, file, ofState, handleVars,
                   envVars, exitCode, procTimes>>

\* CloseHandle(hProcess); CloseHandle(hJob);  (closing NULL does nothing)
CloseHandles ==
    /\ pc = "CloseHandle"
    /\ hProcess' = "closed"
    /\ hJob' = IF hJob = "open" THEN "closed" ELSE hJob
    /\ pc' = "Warning"
    /\ UNCHANGED <<argv, ndebug, parseVars, ioVars, hThread, envVars, localVars,
                   failed, toolExit>>

\* as WarningLines, with the warning left out
WarningLinesNever(info) == << >>

\* if (jobInfo.ActiveProcesses != 0) std::cerr << "Warning: there are still " ...
WarningLines(info) ==
    IF info.ActiveProcesses # 0
    THEN << Msg("Warning: there are still alive children processes",
                <<info.ActiveProcesses>>) >>
    ELSE << >>

Warning ==
    /\ pc = "Warning"
    /\ errStream' = errStream \o WarningLines(jobInfo)
    /\ pc' = "OpenOutput"
    /\ UNCHANGED <<argv, ndebug, parseVars, outStream, file, ofState, handleVars,
                   envVars, localVars, failed, toolExit>>

\* ------------------------------------------------ wmain: the report
\* out << std::fixed << std::setprecision(2) << timeUnit * v: v is in units
\* of 100 ns, the text has the seconds and two decimals (hundredths, rounded)
Fixed2(v) ==
    LET a == IF v < 0 THEN 0 - v ELSE v
        h == (a + 50000) \div 100000
    IN  [neg |-> v < 0, int |-> h \div 100, frac |-> h % 100]

Line(label, sep, value, unit) ==
    [label |-> label, sep |-> sep, value |-> value, unit |-> unit]

\* out << std::endl
EmptyLine == Line("", "", Empty, "")

VerboseLines(cmdLine, wall, user, kernel, pageFaults, code) ==
    << Line("Command being timed: ", "", <<"\"">> \o cmdLine \o <<"\"">>, ""),
       Line("Elapsed (wall clock) time (seconds): ", "", Fixed2(wall), ""),
       Line("User time (seconds): ", "", Fixed2(user), ""),
       Line("System time (seconds): ", "", Fixed2(kernel), ""),
       Line("Page faults: ", "", pageFaults, ""),
       Line("Exit status: ", "", code, "") >>

\* as TerseLines, with the first two lines in the other order
TerseLinesUserFirst(wall, user, kernel) ==
    << Line("user", "\t", Fixed2(user), "s"),
       Line("real", "\t", Fixed2(wall), "s"),
       Line("sys", "\t", Fixed2(kernel), "s") >>

TerseLines(wall, user, kernel) ==
    << Line("real", "\t", Fixed2(wall), "s"),
       Line("user", "\t", Fixed2(user), "s"),
       Line("sys", "\t", Fixed2(kernel), "s") >>

\* everything wmain writes to `out`
ReportLines(p, times, info, code) ==
    LET wallclockTime100Ns == times.exit - times.create
    IN  <<EmptyLine>> \o
        IF p.verbose
        THEN VerboseLines(p.cmdLine, wallclockTime100Ns, info.TotalUserTime,
                          info.TotalKernelTime, info.TotalPageFaultCount, code)
        ELSE TerseLines(wallclockTime100Ns, info.TotalUserTime,
                        info.TotalKernelTime)

\* if (!params.outputFileName.empty()) { of.open(...); buf = of.rdbuf(); }
\* else buf = std::wcout.rdbuf();    open() creates or truncates the file
OpenOutput ==
    /\ pc = "OpenOutput"
    /\ IF params.outputFileName # Empty
       THEN \E ok \in BOOLEAN :
              /\ ofState' = IF ok THEN "open" ELSE "failed"
              /\ file' = IF ok THEN [exists |-> TRUE, lines |-> << >>] ELSE file
       ELSE UNCHANGED <<ofState, file>>
    /\ pc' = "WriteReport"
    /\ UNCHANGED <<argv, ndebug, parseVars, errStream, outStream, handleVars,
                   envVars, localVars, failed, toolExit>>

\* the writes to `out`: to the file's buffer if a file was named (lost if it
\* is not open), to wcout's buffer otherwise
WriteReport ==
    /\ pc = "WriteReport"
    /\ LET lines == ReportLines(params, procTimes, jobInfo, exitCode)
       IN  /\ outStream' = IF params.outputFileName = Empty
                           THEN outStream \o lines ELSE outStream
           /\ file' = IF params.outputFileName # Empty /\ ofState = "open"
                      THEN [file EXCEPT !.lines = @ \o lines] ELSE file
    /\ pc' = "Return"
    /\ UNCHANGED <<argv, ndebug, parseVars, errStream, ofState, handleVars,
                   envVars, localVars, failed, toolExit>>

\* as ReturnValue, had wmain ended with `return ret;`
ReturnRet(code) == 1

\* return exitCode;  (DWORD to int)
ReturnValue(code) == ToInt(code)

\* as CloseIfOpen, without the of.close()
LeftAsIs(stream) == stream

\* if (of.is_open()) of.close();
CloseIfOpen(stream) == IF stream = "open" THEN "closed" ELSE stream

\* if (of.is_open()) of.close(); return exitCode;
Return ==
    /\ pc = "Return"
    /\ ofState' = CloseIfOpen(ofState)
    /\ Exit(ReturnValue(exitCode))
    /\ UNCHANGED <<argv, ndebug, parseVars, errStream, outStream, file, handleVars,
                   envVars, localVars, failed>>

\* ------------------------------------------------ the launched processes
\* the primary process ends
PrimaryExits ==
    /\ proc = "running"
    /\ proc' = "exited"
    /\ procExit' \in ExitCodes
    /\ UNCHANGED <<argv, ndebug, pc, parseVars, ioVars, handleVars, inJob, children,
                   localVars, failed, toolExit>>

\* the primary process or a descendant starts a process
ChildSpawns ==
    /\ proc = "running" \/ children > 0
    /\ children < MaxChildren
    /\ children' = children + 1
    /\ UNCHANGED <<argv, ndebug, pc, parseVars, ioVars, handleVars, proc, procExit,
                   inJob, localVars, failed, toolExit>>

\* a descendant ends
ChildExits ==
    /\ children > 0
    /\ children' = children - 1
    /\ UNCHANGED <<argv, ndebug, pc, parseVars, ioVars, handleVars, proc, procExit,
                   inJob, localVars, failed, toolExit>>

\* ------------------------------------------------------ specifications
ParseStep == ParseLoop \/ ParseAfterLoop \/ ParseReturn

SupervisorStep ==
    \/ CreateProcess
    \/ CreateJobObject
    \/ AssignProcessToJobObject
    \/ ResumeThread
    \/ WaitForSingleObject
    \/ GetExitCodeProcess
    \/ GetProcessTimes
    \/ QueryInformationJobObject
    \/ CloseHandles

ReportStep == Warning \/ OpenOutput \/ WriteReport \/ Return

wmain == ParseStep \/ SupervisorStep \/ ReportStep

Next ==
    \/ ParseLoop
    \/ ParseAfterLoop
    \/ ParseReturn
    \/ CreateProcess
    \/ CreateJobObject
    \/ AssignProcessToJobObject
    \/ ResumeThread
    \/ WaitForSingleObject
    \/ GetExitCodeProcess
    \/ GetProcessTimes
    \/ QueryInformationJobObject
    \/ CloseHandles
    \/ Warning
    \/ OpenOutput
    \/ WriteReport
    \/ Return
    \/ PrimaryExits
    \/ ChildSpawns
    \/ ChildExits

Spec == Init /\ [][Next]_vars

\* wmain is one thread that the system keeps scheduling: every call returns,
\* the wait once the process object is signalled.  Nothing makes the launched
\* processes end.
Scheduled == wmain /\ (pc = "WaitForSingleObject" => WaitSatisfied(proc, children))

\* the tool run terse to standard output, verbose, to a file, and misused
FairArgvs ==
    { <<ProgWord>>, <<DashV, ProgWord>>, <<DashO \o FileWord, ProgWord>>,
      <<UnknownFlag>> }

FairInit == InitWith(FairArgvs) /\ file = NoFile

FairSpec == FairInit /\ [][Next]_vars /\ WF_vars(Scheduled)

\* ParseArgv alone, on every argument vector up to MaxArgc words
ParseInit ==
    /\ InitWith(SeqsUpTo(Words, MaxArgc))
    /\ ndebug = FALSE
    /\ file = NoFile

ParseNext == ParseLoop \/ ParseAfterLoop \/ ParseReturn

ParseSpec == ParseInit /\ [][ParseNext]_vars

\* ================================================================ claims
\* the calls whose failure the claims speak of
LaunchOrWait == {"CreateProcess", "WaitForSingleObject"}
AssertedCalls ==
    {"CreateJobObject", "AssignProcessToJobObject", "GetExitCodeProcess",
     "GetProcessTimes", "QueryInformationJobObject"}
FatalCalls == LaunchOrWait \cup (AssertedCalls \ {"CreateJobObject"})

\* wmain has returned or exited
Exited == pc = "exited"
\* wmain went past the query of the job and closed its handles
PastClose == hProcess = "closed"

KindsOf(stream) == { stream[i].kind : i \in DOMAIN stream }
HasPlatformError(stream) ==
    \E i \in DOMAIN stream :
        /\ stream[i].kind \in {"Unable to start the process: ",
                               "Failed waiting for process termination: "}
        /\ \E e \in ErrCodes : stream[i].arg = GetLastErrorDescription(e)

\* C1: the primary process runs only as a member of the job: in no state is
\* it running without having been assigned to the job object.
C1_ResumedOnlyInJob == proc = "running" => inJob

\* C2: when parsing and every call of the supervisor succeeded, the tool's
\* exit status is the status the primary process exited with, whatever its
\* descendants do and whatever the job's count of active processes is.
C2_ExitCodePropagated ==
    (Exited /\ ps.at = "true" /\ failed \cap (FatalCalls \cup AssertedCalls) = {})
        => toolExit = procExit

C2_Witness ==
    /\ Exited /\ ps.at = "true" /\ failed = {}
    /\ procExit = 42 /\ toolExit = 42
    /\ jobInfo.ActiveProcesses = 2 /\ children = 1

\* C3: a failed launch or a failed wait leaves its message on the error stream
\* and the tool exits at once with status 127.
C3_LaunchOrWaitFailure ==
    /\ "CreateProcess" \in failed =>
          /\ Exited /\ toolExit = 127
          /\ "Unable to start the process: " \in KindsOf(errStream)
    /\ "WaitForSingleObject" \in failed =>
          /\ Exited /\ toolExit = 127
          /\ "Failed waiting for process termination: " \in KindsOf(errStream)

C3_Witness ==
    /\ "WaitForSingleObject" \in failed /\ proc = "exited" /\ children = 2
    /\ toolExit = 127

\* C4: a failed creation of the job, assignment to it, exit status, process
\* times or job query puts the platform's error text on the error stream and
\* ends the tool at once with status 127.
C4_AssertedFailureExits127 ==
    failed \cap AssertedCalls # {} =>
        Exited /\ toolExit = 127 /\ HasPlatformError(errStream)

\* C5: once the process was launched, wmain returns only with the process
\* handle and the job handle closed.
C5_HandlesReleased ==
    (Exited /\ hProcess # None /\ "Assertion failed" \notin KindsOf(errStream)) =>
        hProcess = "closed" /\ hJob \in {"closed", "null"}

\* C6: in a run with a fatal failure nothing of the report reaches standard
\* output or the file and the file is not opened; and the destination is
\* opened and written only after the metrics were collected.
C6_NoReportOnFatal ==
    /\ failed \cap FatalCalls # {} =>
          outStream = << >> /\ ofState = "unopened" /\ file \in {NoFile, OldFile}
    /\ (outStream # << >> \/ ofState # "unopened") =>
          pc \in {"WriteReport", "Return", "exited"}

\* the labels of written lines, in order
Labels(lines) == [i \in DOMAIN lines |-> lines[i].label]
TerseLabels == <<"real", "user", "sys">>
VerboseLabels ==
    <<"Command being timed: ", "Elapsed (wall clock) time (seconds): ",
      "User time (seconds): ", "System time (seconds): ", "Page faults: ",
      "Exit status: ">>
\* every line of the report is there, in order, after the leading line end
IsCompleteReport(lines) ==
    Labels(lines) = <<"">> \o (IF params.verbose THEN VerboseLabels ELSE TerseLabels)

IsWarning(m) == m.kind = "Warning: there are still alive children processes"
Warnings == SelectSeq(errStream, IsWarning)

\* C7: in a run where every call succeeded and the job reported N active
\* processes, the error stream has one warning, naming N, if N # 0 and none
\* if N = 0; the complete report is at the destination (standard output, or
\* the file if it could be opened); and the exit status is the primary
\* process's.
C7_WarningNotFatal ==
    (Exited /\ PastClose /\ failed = {}) =>
        /\ Len(Warnings) = (IF jobInfo.ActiveProcesses # 0 THEN 1 ELSE 0)
        /\ \A i \in DOMAIN Warnings : Warnings[i].arg = <<jobInfo.ActiveProcesses>>
        /\ toolExit = procExit
        /\ IF params.outputFileName = Empty
           THEN IsCompleteReport(outStream)
           ELSE ofState # "failed" => IsCompleteReport(file.lines)

C7_Witness ==
    /\ Exited /\ PastClose /\ failed = {}
    /\ jobInfo.ActiveProcesses = 2 /\ Len(Warnings) = 1
    /\ params.outputFileName # Empty /\ ofState = "closed"
    /\ IsCompleteReport(file.lines) /\ toolExit = 42

\* the report was written, or its file could not be opened
ReportDone == outStream # << >> \/ ofState \in {"closed", "failed"}

\* C8: once the primary process has exited the tool ends, with the report
\* done if every call succeeded, though descendants may run forever; and no
\* step of the tool starts, ends or waits for a descendant.
C8_WaitsForPrimaryOnly ==
    /\ (proc = "exited") ~> (Exited /\ (failed = {} => ReportDone))
    /\ [][wmain => children' = children]_vars

C8_Witness ==
    /\ Exited /\ failed = {} /\ ReportDone
    /\ proc = "exited" /\ children = 2 /\ jobInfo.ActiveProcesses = 1

\* ------------------------------------------------- claims on ParseArgv
\* ParseArgv has returned
Parsed == ps.at \in {"true", "false"}

\* An argument vector as the usage text reads it, from word i on, `out` being
\* the output value given so far: where the program word is (0 if the options
\* end without one, or a word is no option the tool knows), the output
\* value in effect there, and whether the options ended at -h, --help or a
\* word that is no option the tool knows.
RECURSIVE Reading(_, _, _)
Reading(args, i, out) ==
    IF i > Len(args) THEN [prog |-> 0, out |-> out, rejected |-> FALSE]
    ELSE LET w == args[i]
         IN  IF w = DashDash
             THEN [prog |-> IF i < Len(args) THEN i + 1 ELSE 0, out |-> out,
                   rejected |-> FALSE]
             ELSE IF w = DashO \/ w = DashDashOutput
             THEN IF i < Len(args) THEN Reading(args, i + 2, args[i + 1])
                  ELSE [prog |-> 0, out |-> out, rejected |-> FALSE]
             ELSE IF StartsWith(w, DashDashOutput)
             THEN Reading(args, i + 1, Substr(w, 8))
             ELSE IF StartsWith(w, DashO)
             THEN Reading(args, i + 1, Substr(w, 2))
             ELSE IF w = DashV \/ w = DashDashVerbose
             THEN Reading(args, i + 1, out)
             ELSE IF StartsWith(w, Dash)
             THEN [prog |-> 0, out |-> out, rejected |-> TRUE]
             ELSE [prog |-> i, out |-> out, rejected |-> FALSE]

\* the words joined by single spaces
RECURSIVE JoinWords(_)
JoinWords(words) ==
    IF Len(words) = 0 THEN Empty
    ELSE IF Len(words) = 1 THEN words[1]
    ELSE words[1] \o Space \o JoinWords(Tail(words))

\* ParseArgv succeeded with the command line made of the program word and
\* every later word, and with the verbose flag and output name that the
\* words up to the program word alone give
CommandLineFrom(k) ==
    LET upTo == ParseRun(ParseEntry(SubSeq(argv, 1, k), ZeroParams)).result
    IN  /\ ps.at = "true"
        /\ params.cmdLine = JoinWords(SubSeq(argv, k, Len(argv)))
        /\ params.verbose = upTo.verbose
        /\ params.outputFileName = upTo.outputFileName

\* C9 as claimed: whenever the vector has a program word, ParseArgv succeeds
\* and cmdLine is that word and all later words, space-joined, none of them
\* read as an option.
C9_ProgramWordAlwaysParses ==
    Parsed => LET r == Reading(argv, 1, Empty)
              IN  r.prog # 0 => CommandLineFrom(r.prog)

\* C9 as amended: the same, for vectors whose output value in effect at the
\* program word is not the word "--".
C9_ProgramWordParses ==
    Parsed => LET r == Reading(argv, 1, Empty)
              IN  (r.prog # 0 /\ r.out # DashDash) => CommandLineFrom(r.prog)

C9_Witness ==
    /\ Parsed /\ ps.at = "true"
    /\ Len(argv) = 3 /\ argv[1] = ProgWord /\ argv[2] = DashV
    /\ argv[3] = DashO \o FileWord
    /\ ~params.verbose /\ params.outputFileName = Empty
    /\ Len(params.cmdLine) = 8

\* a word that begins with a dash and is none of the tool's options
IsUnrecognizedFlag(w) ==
    /\ StartsWith(w, Dash)
    /\ w \notin {DashDash, DashV, DashDashVerbose, DashH, DashDashHelp}
    /\ ~StartsWith(w, DashO) /\ ~StartsWith(w, DashDashOutput)
OnlyUnrecognizedFlags(args) == \A i \in DOMAIN args : IsUnrecognizedFlag(args[i])

\* the last line ParseArgv wrote to the error stream
LastError == IF ps.wcerr = << >> THEN "" ELSE ps.wcerr[Len(ps.wcerr)].kind

\* C10 as claimed: a vector of unrecognized flags only makes ParseArgv fail
\* with "Missing program name".
C10_OnlyFlagsMissingProgram ==
    (Parsed /\ OnlyUnrecognizedFlags(argv)) =>
        ps.at = "false" /\ ps.line = 154 /\ LastError = "Missing program name"

\* C10 as amended: a non-empty vector of unrecognized flags only makes
\* ParseArgv fail with "Unknown option", naming the first word, and nothing
\* else is reported; the empty vector fails with "Missing program name".
C10_OnlyFlagsUnknownOption ==
    (Parsed /\ OnlyUnrecognizedFlags(argv)) =>
        /\ ps.at = "false"
        /\ IF argv = << >>
           THEN ps.line = 154 /\ LastError = "Missing program name"
           ELSE ps.line = 135 /\ ps.wcerr = << Msg("Unknown option", argv[1]) >>

C10_Witness ==
    /\ Parsed /\ Len(argv) = 3 /\ OnlyUnrecognizedFlags(argv)
    /\ argv[1] = Dash /\ argv[2] = UnknownFlag
    /\ LastError = "Unknown option"

\* what the caller gets of ParseArgv: success or not and, on success, the result
Got(at, result) == [at |-> at, result |-> IF at = "true" THEN result ELSE ZeroParams]

Outcome(args) ==
    LET st == ParseRun(ParseEntry(args, ZeroParams))
    IN  Got(st.at, st.result)

\* args with the n words from position i on replaced by `words`
Spliced(args, i, n, words) ==
    SubSeq(args, 1, i - 1) \o words \o SubSeq(args, i + n, Len(args))

\* the vector has "-o FILE" at positions i, i + 1, and writing it as -oFILE,
\* --outputFILE or --output FILE instead changes nothing of the outcome
SpellingsAgree(i) ==
    LET FILE == argv[i + 1]
        here == Got(ps.at, params)
    IN  /\ here = Outcome(argv)
        /\ Outcome(Spliced(argv, i, 2, <<DashO \o FILE>>)) = here
        /\ Outcome(Spliced(argv, i, 2, <<DashDashOutput \o FILE>>)) = here
        /\ Outcome(Spliced(argv, i, 2, <<DashDashOutput, FILE>>)) = here

\* word k of the vector is read as an option: no "--", program word, help or
\* unknown option comes before it and it is not the value of a bare -o/--output
RECURSIVE InOptionPosition(_, _, _)
InOptionPosition(args, i, k) ==
    IF i > Len(args) \/ i > k THEN FALSE
    ELSE IF i = k THEN TRUE
    ELSE LET w == args[i]
         IN  IF w = DashO \/ w = DashDashOutput
             THEN InOptionPosition(args, i + 2, k)
             ELSE IF \/ StartsWith(w, DashO) \/ StartsWith(w, DashDashOutput)
                     \/ w = DashV \/ w = DashDashVerbose
             THEN InOptionPosition(args, i + 1, k)
             ELSE FALSE

\* C11 as claimed: wherever a vector has the option -o FILE, with any FILE,
\* the spellings -oFILE, --outputFILE and --output FILE in its place give the
\* same success or failure, output name, verbose flag and command line.
C11_SpellingsAlwaysAgree ==
    Parsed => \A i \in 1..(Len(argv) - 1) :
                 (argv[i] = DashO /\ InOptionPosition(argv, 1, i))
                    => SpellingsAgree(i)

\* C11 as amended: the same, for every non-empty FILE.
C11_SpellingsAgreeInOptionPosition ==
    Parsed => \A i \in 1..(Len(argv) - 1) :
                 (argv[i] = DashO /\ argv[i + 1] # Empty
                    /\ InOptionPosition(argv, 1, i)) => SpellingsAgree(i)

C11_Witness ==
    /\ Parsed /\ ps.at = "true"
    /\ argv = <<DashO, FileWord, ProgWord>>
    /\ params.outputFileName = FileWord /\ params.cmdLine = ProgWord
    /\ Outcome(<<DashDashOutput \o FileWord, ProgWord>>).result = params

\* the position of the "--" that is read as the separator, 0 if there is none
SeparatorAt(args) ==
    LET at == { k \in DOMAIN args : args[k] = DashDash /\ InOptionPosition(args, 1, k) }
    IN  IF at = {} THEN 0 ELSE CHOOSE k \in at : TRUE

\* C12 as claimed: a "--" read in option position, with a word after it, ends
\* the options: ParseArgv succeeds and cmdLine is the words after the "--",
\* space-joined, whatever they begin with, without the "--".
C12_SeparatorAlwaysEndsOptions ==
    Parsed => LET k == SeparatorAt(argv)
              IN  (k # 0 /\ k < Len(argv)) => CommandLineFrom(k + 1)

\* C12 as amended: the same, unless the output value in effect is the word
\* "--".
C12_SeparatorEndsOptions ==
    Parsed => LET k == SeparatorAt(argv)
              IN  (k # 0 /\ k < Len(argv) /\ Reading(argv, 1, Empty).out # DashDash)
                     => CommandLineFrom(k + 1)

C12_Witness ==
    /\ Parsed /\ ps.at = "true"
    /\ argv = <<DashDash, DashV, DashO>>
    /\ params.cmdLine = DashV \o Space \o DashO
    /\ ~params.verbose /\ params.outputFileName = Empty

\* wmain has written the report; what is at the destination
ReportWritten == PastClose /\ pc \in {"Return", "exited"}
AtDestination == IF params.outputFileName = Empty THEN outStream ELSE file.lines

\* a line of the terse report: label, tab, seconds with two decimals, "s"
IsTerseLine(l, label) ==
    /\ l.label = label /\ l.sep = "\t" /\ l.unit = "s"
    /\ l.value.int >= 0 /\ l.value.frac \in 0..99

IsTerseTriple(lines) ==
    /\ Len(lines) = 3
    /\ IsTerseLine(lines[1], "real")
    /\ IsTerseLine(lines[2], "user")
    /\ IsTerseLine(lines[3], "sys")

\* C13 as claimed: in terse mode the destination holds exactly the three
\* lines real, user, sys and no other line.
C13_TerseIsThreeLines ==
    (ReportWritten /\ ~params.verbose /\ ofState # "failed")
        => IsTerseTriple(AtDestination)

\* C13 as amended: in terse mode the destination holds one empty line and
\* then exactly the three lines real, user, sys.
C13_TerseIsEmptyLineAndThree ==
    (ReportWritten /\ ~params.verbose /\ ofState # "failed") =>
        /\ Len(AtDestination) = 4
        /\ AtDestination[1] = EmptyLine
        /\ IsTerseTriple(Tail(AtDestination))

C13_Witness ==
    /\ Exited /\ ReportWritten /\ ~params.verbose /\ failed = {}
    /\ ofState = "closed" /\ Len(file.lines) = 4
    /\ file.lines[2].value = [neg |-> FALSE, int |-> 3, frac |-> 0]
    /\ file.lines[4].value = [neg |-> FALSE, int |-> 0, frac |-> 50]

\* The whole tool on every vector up to MaxArgc words that has no program
\* word or has "--" as its output value, and on the vectors of FairArgvs.
Misused(args) ==
    LET r == Reading(args, 1, Empty) IN r.prog = 0 \/ r.out = DashDash

UsageArgvs == { a \in SeqsUpTo(Words, MaxArgc) : Misused(a) } \cup FairArgvs

UsageInit == InitWith(UsageArgvs) /\ file = NoFile

UsageSpec == UsageInit /\ [][Next]_vars

\* C14: once ParseArgv has returned false, the usage text is the last thing on
\* the error stream, the tool has exited with status 1, and there is no
\* process, no handle, no job, nothing on standard output and no output file
\* opened or changed.
C14_ParseFailureOnlyPrintsUsage ==
    (ps.at = "false" /\ pc # "ParseArgv") =>
        /\ Exited /\ toolExit = 1
        /\ errStream # << >> /\ errStream[Len(errStream)].kind = "Usage"
        /\ proc = None /\ hProcess = None /\ hThread = None /\ hJob = None
        /\ ~inJob /\ children = 0
        /\ outStream = << >> /\ ofState = "unopened" /\ file = NoFile

C14_Witness ==
    /\ Exited /\ ps.at = "false" /\ ps.line = 145 /\ toolExit = 1
    /\ argv = <<DashV, DashDashOutput, DashDash>>
    /\ Len(errStream) = 2

\* C15: with an output name given nothing is ever written to standard
\* output, the written report is in the file (if it could be opened), and the
\* tool never ends with the file open.
C15_ReportOnlyInClosedFile ==
    /\ params.outputFileName # Empty => outStream = << >>
    /\ (ReportWritten /\ params.outputFileName # Empty /\ ofState # "failed")
          => IsCompleteReport(file.lines)
    /\ Exited => ofState # "open"

C15_Witness ==
    /\ Exited /\ params.outputFileName = FileWord /\ ofState = "closed"
    /\ outStream = << >> /\ IsCompleteReport(file.lines) /\ failed = {}

\* C16: when the options end (at the program word, at "--" or with the
\* vector) with "--" as the output value in effect, whichever spelling gave
\* it, ParseArgv fails with "Missing positional argument" whatever follows.
C16_SeparatorAsOutputValueFails ==
    Parsed => LET r == Reading(argv, 1, Empty)
              IN  (r.out = DashDash /\ ~r.rejected) =>
                     /\ ps.at = "false" /\ ps.line = 145
                     /\ LastError = "Missing positional argument"

C16_Witness ==
    /\ Parsed /\ argv = <<DashDashOutput, DashDash, ProgWord>>
    /\ ps.at = "false" /\ ps.line = 145 /\ ps.argNo = 2

\* -v or --verbose stands where options are read
VerboseGiven(args) ==
    \E k \in DOMAIN args :
        args[k] \in {DashV, DashDashVerbose} /\ InOptionPosition(args, 1, k)

\* C17 as claimed: when ParseArgv returns false the result is as it was
\* before the call.
C17_FailureLeavesResult == (Parsed /\ ps.at = "false") => params = ZeroParams

\* C17 as amended: when ParseArgv returns false, cmdLine is as before the
\* call; verbose is set exactly if -v/--verbose was read before the failure;
\* outputFileName is set, to the output value in effect, exactly if the
\* failure is "Missing program name", and is as before the call otherwise.
C17_FailureLeavesCmdLine ==
    (Parsed /\ ps.at = "false") =>
        /\ params.cmdLine = ZeroParams.cmdLine
        /\ params.verbose = VerboseGiven(argv)
        /\ params.outputFileName =
              IF ps.line = 154 THEN Reading(argv, 1, Empty).out
              ELSE ZeroParams.outputFileName

C17_Witness ==
    /\ Parsed /\ ps.at = "false" /\ ps.line = 154
    /\ argv = <<DashV, DashO \o FileWord>>
    /\ params.verbose /\ params.outputFileName = FileWord

\* One iteration of the scan, seen from outside: the word after a bare -o or
\* --output becomes the output value and nothing else happens, whatever the
\* word is; a word read as an option that begins with -o or --output is not
\* rejected, and what follows the prefix, if anything, becomes the output value.
ValueStep ==
    (ps.at = "loop" /\ ps.argNo < ps.argc /\ ps' # ps) =>
        LET w == argv[ps.argNo + 1]
            rest == IF StartsWith(w, DashO) THEN Substr(w, 2) ELSE Substr(w, 8)
        IN  /\ ps.consumeNextPositionalArgument =>
                /\ ps'.at = "loop" /\ ps'.argNo = ps.argNo + 1
                /\ ps'.posArg = w
                /\ ~ps'.consumeNextPositionalArgument
                /\ ps'.result = ps.result /\ ps'.wcerr = ps.wcerr
            /\ (/\ ~ps.consumeNextPositionalArgument
                /\ (StartsWith(w, DashO) \/ StartsWith(w, DashDashOutput))) =>
                /\ ps'.at = "loop" /\ ps'.argNo = ps.argNo + 1
                /\ ps'.result = ps.result /\ ps'.wcerr = ps.wcerr
                /\ IF rest = Empty
                   THEN /\ ps'.consumeNextPositionalArgument
                        /\ ps'.posArg = ps.posArg
                   ELSE /\ ~ps'.consumeNextPositionalArgument
                        /\ ps'.posArg = rest

\* when the options have ended the output value is the last one given, and a
\* successful parse returns it as the output name
LastValueWins ==
    /\ ps.at = "post" => ps.posArg = Reading(argv, 1, Empty).out
    /\ (Parsed /\ ps.at = "true") =>
           params.outputFileName = Reading(argv, 1, Empty).out

\* C18: the word after a bare -o or --output is always taken as the output
\* value and never read as an option; a word in option position that begins
\* with -o or --output is an output option whose value is the rest of the
\* word; of several output values the last one wins.
C18_OutputValueConsumed == [][ValueStep]_vars /\ []LastValueWins

C18_Witness ==
    /\ argv = <<DashDashOutput \o FileWord, DashO, DashH>>
    /\ ps.at = "post" /\ ps.argNo = 3
    /\ ps.posArg = DashH /\ ps.wcerr = << >> /\ ~ps.result.verbose

\* argNo stays within the vector, and the word the command line starts with
\* is read at an index below argc
ScanInRange ==
    /\ 0 <= ps.argNo /\ ps.argNo <= ps.argc
    /\ ps.argc = Len(argv)
    /\ ps.at = "true" => ps.argNo < ps.argc

\* the options end without a program word: the vector ends while options
\* are read (after a bare -o or --output included), or "--" is its last word
OptionsEndWithoutProgram(args) ==
    LET r == Reading(args, 1, Empty) IN r.prog = 0 /\ ~r.rejected

\* C19 as claimed: argNo stays in 0..argc, no word is read at an index of argc
\* or more, and every vector whose options end without a program word fails
\* with "Missing program name".
C19_NoProgramAlwaysMissingProgramName ==
    /\ ScanInRange
    /\ (Parsed /\ OptionsEndWithoutProgram(argv)) =>
           ps.at = "false" /\ ps.line = 154 /\ LastError = "Missing program name"

\* C19 as amended: argNo stays in 0..argc, no word is read at an index of argc
\* or more, and every vector whose options end without a program word fails:
\* with "Missing positional argument" if the output value in effect is "--",
\* with "Missing program name" otherwise.
C19_NoProgramFails ==
    /\ ScanInRange
    /\ (Parsed /\ OptionsEndWithoutProgram(argv)) =>
           /\ ps.at = "false" /\ ps.argNo = ps.argc
           /\ params.cmdLine = Empty
           /\ IF Reading(argv, 1, Empty).out = DashDash
              THEN ps.line = 145 /\ LastError = "Missing positional argument"
              ELSE ps.line = 154 /\ LastError = "Missing program name"

C19_Witness ==
    /\ Parsed /\ argv = <<DashV, DashO \o FileWord, DashDash>>
    /\ ps.at = "false" /\ ps.line = 154 /\ ps.argNo = 3 /\ ps.argc = 3

\* the place of each step in the text of wmain
StepOrder ==
    << "ParseArgv", "CreateProcess", "CreateJobObject", "AssignProcessToJobObject",
       "ResumeThread", "WaitForSingleObject", "GetExitCodeProcess",
       "GetProcessTimes", "QueryInformationJobObject", "CloseHandle", "Warning",
       "OpenOutput", "WriteReport", "Return", "exited" >>

Rank(p) == CHOOSE i \in DOMAIN StepOrder : StepOrder[i] = p

\* the steps from step a to step b of wmain
StepsFromTo(a, b) == { StepOrder[i] : i \in Rank(a)..Rank(b) }

\* every step of wmain moves forward in the text; a handle is opened by the
\* step that creates it and closed, if ever, once, by the releasing step, when
\* open; the warning is written by the warning step alone and the report
\* after it; nothing but a step of wmain touches handles, locals or the
\* report, and only ParseArgv writes messages without ending its step
StepsInOrder ==
    /\ pc' # pc => Rank(pc) < Rank(pc')
    /\ pc' = pc =>
          /\ UNCHANGED <<handleVars, localVars, outStream, file, ofState>>
          /\ errStream' # errStream => pc = "ParseArgv"
    /\ hProcess' # hProcess =>
          \/ pc = "CreateProcess" /\ hProcess = None /\ hProcess' = "open"
          \/ pc = "CloseHandle" /\ hProcess = "open" /\ hProcess' = "closed"
    /\ hThread' # hThread =>
          pc = "CreateProcess" /\ hThread = None /\ hThread' = "open"
    /\ hJob' # hJob =>
          \/ pc = "CreateJobObject" /\ hJob = None /\ hJob' \in {"open", "null"}
          \/ pc = "CloseHandle" /\ hJob = "open" /\ hJob' = "closed"
    /\ inJob' # inJob => pc = "AssignProcessToJobObject" /\ ~inJob
    /\ proc' = "running" /\ proc # "running" =>
          pc = "ResumeThread" /\ proc = "suspended"
    /\ exitCode' # exitCode => pc = "GetExitCodeProcess"
    /\ procTimes' # procTimes => pc = "GetProcessTimes"
    /\ jobInfo' # jobInfo => pc = "QueryInformationJobObject"
    /\ Warnings' # Warnings => pc = "Warning"
    /\ <<outStream, file, ofState>>' # <<outStream, file, ofState>> =>
          pc \in StepsFromTo("OpenOutput", "Return")

\* each step that uses a handle finds it not yet released, the steps that
\* read the primary process find it exited, and the handles are released
\* when the warning and the report are written
HandlesLive ==
    /\ pc \in StepsFromTo("CreateJobObject", "CloseHandle") =>
          hProcess = "open" /\ hThread = "open"
    /\ pc \in StepsFromTo("AssignProcessToJobObject", "CloseHandle") =>
          hJob \in {"open", "null"}
    /\ pc \in StepsFromTo("GetExitCodeProcess", "CloseHandle") => proc = "exited"
    /\ pc \in StepsFromTo("Warning", "Return") =>
          /\ hProcess = "closed" /\ hJob \in {"closed", "null"}
          /\ proc = "exited"
    /\ pc \in StepsFromTo("ParseArgv", "Warning") =>
          Warnings = << >> /\ outStream = << >> /\ ofState = "unopened"

\* C20: the supervisor's steps happen at most once each, in the order launch,
\* create group, attach, resume, wait, read exit status, read timestamps,
\* query group, release handles, warn, report; no handle is used after it is
\* released or released twice; the group is queried after the primary
\* process has exited and before the group's handle is closed.
C20_StepsOnceInOrder == [][StepsInOrder]_vars /\ []HandlesLive

C20_Witness ==
    /\ Exited /\ failed = {} /\ toolExit = 0
    /\ hProcess = "closed" /\ hJob = "closed" /\ hThread = "open"
    /\ Len(Warnings) = 1 /\ children = 2
    /\ params.verbose /\ IsCompleteReport(outStream)

====
